---- MODULE Spec2Model ----
(***************************************************************************)
(* A model of the StepLoop class of src/steploop.ts (lines 29-609): the    *)
(* lifecycle flags, the step counter, the lifespan, the two scheduling     *)
(* primitives (setTimeout and requestAnimationFrame) and the hooks a host  *)
(* subclass overrides.                                                     *)
(*                                                                         *)
(* Every method of the class is an operator from a "world" record to a     *)
(* world record, so that a method that calls another one is the            *)
(* composition of the two operators, in the order of the source.  A world  *)
(* holds the instance fields (loop), the callbacks the environment holds   *)
(* for the instance (pending), the clock (now), what the host has counted  *)
(* and read since the last start() (calls, seen, errors), the promises of  *)
(* background() that have not settled (tasks), the handlers of rejected    *)
(* promises that are queued as microtasks (microtasks) and, for the        *)
(* operation in progress, the hook invocations it has made so far (log)    *)
(* and the exception in flight (exc).                                      *)
(***************************************************************************)
EXTENDS Integers, Sequences, FiniteSets

VARIABLES
    loop,     \* the fields of the StepLoop instance
    pending,  \* callbacks scheduled with setTimeout / requestAnimationFrame, not yet fired or cancelled
    now,      \* performance.now(), in ms
    calls,    \* number of invocations of before(), step(), after() and final() since the last start()
    seen,     \* the values of get_step() that step() has read since the last start(), in order
    errors,   \* number of console.error reports since the last start(), by the hook that failed
    tasks,    \* the cycles whose background() promise has not settled yet
    microtasks \* number of catch handlers of rejected background() promises queued and not yet run

vars == <<loop, pending, now, calls, seen, errors, tasks, microtasks>>

----------------------------------------------------------------------------
(* Bounds of the model *)

\* largest lifespan a constructor argument or extend_lifespan may produce
MaxLifespan == 2
\* largest value of the clock in the general specification
MaxTime == 1
\* largest number of callbacks pending at once
MaxPending == 2
\* largest number of final() invocations counted since a start()
MaxFinals == 2
\* largest lateness of a timer, in ms, in the specifications of a single run
MaxLate == 1
\* largest lifespan in the specifications of a single run
MaxRunLifespan == 3
\* largest number of ms by which the callback of a timer begins before the
\* clock reads the time the timer was set for
MaxEarly == 1
\* largest number of ms by which the timestamp of an animation frame is below
\* the clock when the callback of the frame begins
MaxFrameLag == 1
\* largest number of ms by which the timestamp of an animation frame is above
\* the clock when the callback of the frame begins
MaxFrameLead == 1

\* largest lifespan a loop is constructed with, and largest extension of it, in
\* the specification of an extended run
MaxExtendLifespan == 2
MaxDelta == 2

\* the lifespan of the loop in the specification of a timed run
MaxTimedLifespan == 5

\* the time, in ms, a slow hook takes to return
SlowHookTime == 1

\* cap on _step_num (a loop with an unlimited lifespan counts for ever)
MaxStep == MaxLifespan

----------------------------------------------------------------------------
(* Values *)

\* An optional number (number | undefined) is <<>> for undefined and <<n>> for n.
undefined == <<>>
Num(n) == <<n>>
IsNumber(v) == v # undefined
Val(v) == v[1]
\* JavaScript truthiness of number | undefined: undefined and 0 are falsy
Truthy(v) == IsNumber(v) /\ Val(v) # 0

\* A timer or animation-frame id is a positive integer; NoId stands for an
\* undefined id field (both are falsy in the tests the code makes).
NoId == 0

Max(a, b) == IF a >= b THEN a ELSE b

\* A quotient a / b of two numbers is kept as the pair <<a, b>>: 1000 / d is not
\* an integer in general.  The number 0 is the pair <<0, 1>>.
Quotient(a, b) == <<a, b>>
Zero == Quotient(0, 1)

\* 1000 / sps, the interval in ms between two steps.  Times are whole numbers
\* of ms in this model, and its arithmetic on times is that of the code for a
\* rate that divides 1000, where the division is exact; every specification
\* below draws its rates from such rates.  For any other rate the interval is
\* not a whole number: it is kept as the quotient, and the rounding of the
\* division to a double is not modelled.
Interval(sps) == IF 1000 % sps = 0 THEN 1000 \div sps ELSE Quotient(1000, sps)

\* The element of a singleton set.  The({e(v) : v \in {w}}) is e(w), with w
\* evaluated once however often e refers to it.
The(S) == CHOOSE x \in S : TRUE

\* steps-per-second values the model draws from; each divides 1000, so that
\* 1000 / sps is an integer number of milliseconds
Rates == {500, 1000}
\* the rates of the specification of a timed run: intervals of 4 ms and 2 ms
TimedRates == {250, 500}
\* the rate of the specification of faulty hosts
FaultRates == {1000}
\* constructor lifespans
Lifespans == {undefined} \cup {Num(n) : n \in 0..MaxLifespan}
\* constructor lifespans of a single run: every N >= 1 up to the bound
RunLifespans == {Num(n) : n \in 1..MaxRunLifespan}
\* arguments of extend_lifespan
Deltas == {undefined, Num(0), Num(1), Num(2)}
\* constructor lifespans and extensions of an extended run
ExtendLifespans == {Num(n) : n \in 1..MaxExtendLifespan}
PositiveDeltas == {Num(d) : d \in 1..MaxDelta}

\* What a host's override of a synchronous hook does when it is invoked.
SyncOutcomes == {"return", "throw"}
\* A hook may also take its time: "slow" returns SlowHookTime ms after it was invoked.
\* What a host's override of background() does: its promise resolves, its
\* promise rejects, or it throws while it is being invoked.
AsyncOutcomes == {"resolve", "reject", "throw"}

HookNames == {"initial", "background", "before", "step", "after", "final", "on_pause", "on_play"}
\* the hooks whose invocations since the last start() are counted
Counted == {"before", "step", "after", "final"}
\* the hooks a failure of which the code reports with console.error
Reported == {"initial", "background", "before", "step", "after", "final"}

\* A host: the outcome of each hook of the subclass during one operation.
\* the hooks of the base class: all return (background() resolves)
DefaultHost ==
    [initial |-> "return", background |-> "resolve", before |-> "return", step |-> "return",
     after |-> "return", final |-> "return", on_pause |-> "return", on_play |-> "return"]

\* the hosts whose hooks in `names` have any outcome and whose other hooks return
HostsOver(names) ==
    {h \in [initial : SyncOutcomes, background : AsyncOutcomes, before : SyncOutcomes,
            step : SyncOutcomes, after : SyncOutcomes, final : SyncOutcomes,
            on_pause : SyncOutcomes, on_play : SyncOutcomes] :
        \A n \in HookNames \ names : h[n] = DefaultHost[n]}

\* a host every hook of which fails where the code catches the failure: the
\* synchronous hooks of a cycle, initial() and final() throw, background() rejects
FailingHost ==
    [initial |-> "throw", background |-> "reject", before |-> "throw", step |-> "throw",
     after |-> "throw", final |-> "throw", on_pause |-> "return", on_play |-> "return"]

\* the hosts whose cycle hooks fail on any subset of {before, step, after}
CycleFaultHosts == HostsOver({"before", "step", "after"})

\* the hosts whose initial() and final() have any outcome
InitFinalFaultHosts == HostsOver({"initial", "final"})

\* the host whose background() returns a promise that rejects
BackgroundRejects == [DefaultHost EXCEPT !.background = "reject"]

\* hosts one hook of which fails where the code has no handler around the call
BackgroundThrows == [DefaultHost EXCEPT !.background = "throw"]
OnPauseThrows == [DefaultHost EXCEPT !.on_pause = "throw"]
OnPlayThrows == [DefaultHost EXCEPT !.on_play = "throw"]

\* the host whose background() returns a promise that is still unsettled when
\* the cycle goes on: it resolves or rejects later, or never
BackgroundPending == [DefaultHost EXCEPT !.background = "pending"]

\* the host whose initial() is slow
InitialSlow == [DefaultHost EXCEPT !.initial = "slow"]

\* the hooks of a cycle that _run calls inside a try block
CycleHooks == {"before", "step", "after"}
\* the hosts one cycle hook of which calls this.pause() and returns
PausingHosts == {[DefaultHost EXCEPT ![n] = "pause"] : n \in CycleHooks}
\* the hosts one cycle hook of which calls this.finish() and returns
FinishingHosts == {[DefaultHost EXCEPT ![n] = "finish"] : n \in CycleHooks}
\* the hosts no hook of which fails, a cycle hook of which may call pause() or finish()
ReentrantHosts == {DefaultHost} \cup PausingHosts \cup FinishingHosts

\* the hosts no hook of which fails
ReturningHosts == {DefaultHost}
\* the hosts every failure of which the code handles
HandledHosts == CycleFaultHosts \cup {FailingHost}
\* the hosts of an extended run: no hook fails, or every hook fails where the
\* code handles the failure
ExtendHosts == {DefaultHost, FailingHost}
\* the hosts one failure of which the code does not handle, by the operation that
\* reaches the failing hook
StartFaults == {BackgroundThrows}
PauseFaults == {OnPauseThrows}
PlayFaults == {BackgroundThrows, OnPlayThrows}
TickFaults == {BackgroundThrows}

----------------------------------------------------------------------------
(* The constructor *)

\* a variant of the constructor that does not store the lifespan
ConstructorWithoutLifespan(sps, lifespan, RAF, RAFAvailable) ==
    [ _step_num         |-> 0,
      _lifespan         |-> undefined,
      _sps              |-> sps,
      _interval         |-> Interval(sps),
      _startTime        |-> 0,
      _lastStepTime     |-> 0,
      _lastStepDuration |-> 0,
      _timeoutId        |-> NoId,
      _initialized      |-> FALSE,
      _running          |-> FALSE,
      _paused           |-> FALSE,
      _kill             |-> FALSE,
      _RAFAvailable     |-> RAFAvailable,
      _RAFActive        |-> RAF,
      _RAFId            |-> NoId ]

constructor(sps, lifespan, RAF, RAFAvailable) ==
    [ _step_num         |-> 0,
      _lifespan         |-> lifespan,
      _sps              |-> sps,
      _interval         |-> Interval(sps),
      _startTime        |-> 0,
      _lastStepTime     |-> 0,
      _lastStepDuration |-> 0,
      _timeoutId        |-> NoId,
      _initialized      |-> FALSE,
      _running          |-> FALSE,
      _paused           |-> FALSE,
      _kill             |-> FALSE,
      _RAFAvailable     |-> RAFAvailable,
      _RAFActive        |-> RAF,
      _RAFId            |-> NoId ]

\* the default of the constructor's parameter sps
DefaultSps == 60

\* new StepLoop(...args): a parameter that has no argument takes its default
new_StepLoop(args, RAFAvailable) ==
    constructor(IF Len(args) >= 1 THEN args[1] ELSE DefaultSps,
                IF Len(args) >= 2 THEN args[2] ELSE undefined,
                IF Len(args) >= 3 THEN args[3] ELSE FALSE,
                RAFAvailable)

(* Accessors *)
is_running(l) == l._running
is_paused(l) == l._paused
get_step(l) == l._step_num
get_sps(l) == l._sps
get_lifespan(l) == l._lifespan

\* a variant of get_real_sps without the test for a duration of 0
GetRealSpsUnguarded(l) == Quotient(1000, l._lastStepDuration)

get_real_sps(l) ==
    IF l._lastStepDuration = 0 THEN Zero ELSE Quotient(1000, l._lastStepDuration)

----------------------------------------------------------------------------
(* Hook invocation and exceptions *)

\* the time a hook with this outcome takes
HookTime(outcome) == IF outcome = "slow" THEN SlowHookTime ELSE 0

\* Invoke hook `name` of the host: it observes the state at that moment, and
\* a "throw" outcome puts an exception in flight.
CallHook(w, name, outcome) == The({
    [v EXCEPT
        !.log = Append(@, [hook    |-> name,
                           step    |-> get_step(v.loop),
                           running |-> is_running(v.loop),
                           paused  |-> is_paused(v.loop),
                           outcome |-> outcome,
                           until   |-> v.now + HookTime(outcome)]),
        !.now = @ + HookTime(outcome),
        !.calls = [n \in DOMAIN v.calls |-> IF n = name THEN v.calls[n] + 1 ELSE v.calls[n]],
        !.seen = IF name = "step" THEN Append(@, get_step(v.loop)) ELSE @,
        !.exc = IF outcome = "throw" THEN name ELSE @,
        \* a promise of background() that has not settled when background() returns
        !.tasks = IF outcome = "pending" THEN @ \cup {get_step(v.loop)} ELSE @]
    : v \in {w}})

Thrown(w) == w.exc # "none"

\* this.background().catch(handler): background() is invoked and, unless it
\* throws, the handler is attached to the promise it returns.  The handler of
\* a promise that is already rejected is queued as a microtask: it runs after
\* the operation in progress has returned.
Background(w, h) == The({
    IF h.background = "reject" THEN [v EXCEPT !.microtasks = @ + 1] ELSE v
    : v \in {CallHook(w, "background", h.background)}})

\* catch (error) { console.error(...) }: the exception in flight is reported and swallowed
Catch(w, name) == The({
    [v EXCEPT !.exc = "none", !.errors = IF Thrown(v) THEN [@ EXCEPT ![name] = @ + 1] ELSE @]
    : v \in {w}})

----------------------------------------------------------------------------
(* The environment's scheduling primitives *)

Ids(w, kind) == {cb.id : cb \in {c \in w.pending : c.kind = kind}}

\* the id the environment hands out: the least one no pending callback of the kind has
NewId(w, kind) ==
    CHOOSE i \in 1..(Cardinality(w.pending) + 1) :
        /\ i \notin Ids(w, kind)
        /\ \A j \in 1..(i - 1) : j \in Ids(w, kind)

\* setTimeout(cb, delay)
setTimeout(w, id, delay) ==
    [w EXCEPT !.pending = @ \cup {[kind |-> "timeout", id |-> id, due |-> w.now + delay]}]

\* requestAnimationFrame(cb)
requestAnimationFrame(w, id) ==
    [w EXCEPT !.pending = @ \cup {[kind |-> "raf", id |-> id, due |-> w.now]}]

\* clearTimeout(id): no effect when no pending timer has the id
clearTimeout(w, id) ==
    [w EXCEPT !.pending = {cb \in @ : ~(cb.kind = "timeout" /\ cb.id = id)}]

\* cancelAnimationFrame(id)
cancelAnimationFrame(w, id) ==
    [w EXCEPT !.pending = {cb \in @ : ~(cb.kind = "raf" /\ cb.id = id)}]

----------------------------------------------------------------------------
(* Private methods *)

\* a variant of _request_next_step that requests nothing once the step count
\* has reached the lifespan
RequestUnlessEnded(w, timestamp) == The({
    IF ~v.loop._running \/ (Truthy(v.loop._lifespan) /\ v.loop._step_num >= Val(v.loop._lifespan))
    THEN v
    ELSE IF v.loop._RAFActive /\ v.loop._RAFAvailable
    THEN LET id == NewId(v, "raf")
         IN  [requestAnimationFrame(v, id) EXCEPT !.loop._RAFId = id]
    ELSE LET nextStepTime == v.loop._startTime + (v.loop._step_num * v.loop._interval)
             delay == Max(0, nextStepTime - v.now)
             id == NewId(v, "timeout")
         IN  [setTimeout(v, id, delay) EXCEPT !.loop._timeoutId = id]
    : v \in {w}})

\* a variant of _request_next_step that aims the timer with the step count of
\* the cycle just completed, not the one after its increment
RequestBeforeIncrement(w, timestamp) == The({
    IF ~v.loop._running THEN v
    ELSE IF v.loop._RAFActive /\ v.loop._RAFAvailable
    THEN LET id == NewId(v, "raf")
         IN  [requestAnimationFrame(v, id) EXCEPT !.loop._RAFId = id]
    ELSE LET nextStepTime == v.loop._startTime + ((v.loop._step_num - 1) * v.loop._interval)
             delay == Max(0, nextStepTime - v.now)
             id == NewId(v, "timeout")
         IN  [setTimeout(v, id, delay) EXCEPT !.loop._timeoutId = id]
    : v \in {w}})

\* a variant of _request_next_step that chains relative delays: every timer waits
\* one interval from the moment it is requested
RequestRelative(w, timestamp) == The({
    IF ~v.loop._running THEN v
    ELSE IF v.loop._RAFActive /\ v.loop._RAFAvailable
    THEN LET id == NewId(v, "raf")
         IN  [requestAnimationFrame(v, id) EXCEPT !.loop._RAFId = id]
    ELSE LET id == NewId(v, "timeout")
         IN  [setTimeout(v, id, v.loop._interval) EXCEPT !.loop._timeoutId = id]
    : v \in {w}})

\* a variant of _request_next_step that does not test the running flag
RequestUnguarded(w, timestamp) == The({
    IF v.loop._RAFActive /\ v.loop._RAFAvailable
    THEN LET id == NewId(v, "raf")
         IN  [requestAnimationFrame(v, id) EXCEPT !.loop._RAFId = id]
    ELSE LET nextStepTime == v.loop._startTime + (v.loop._step_num * v.loop._interval)
             delay == Max(0, nextStepTime - v.now)
             id == NewId(v, "timeout")
         IN  [setTimeout(v, id, delay) EXCEPT !.loop._timeoutId = id]
    : v \in {w}})

_request_next_step(w, timestamp) == The({
    IF ~v.loop._running THEN v
    ELSE IF v.loop._RAFActive /\ v.loop._RAFAvailable
    THEN LET id == NewId(v, "raf")
         IN  [requestAnimationFrame(v, id) EXCEPT !.loop._RAFId = id]
    ELSE LET nextStepTime == v.loop._startTime + (v.loop._step_num * v.loop._interval)
             delay == Max(0, nextStepTime - v.now)
             id == NewId(v, "timeout")
         IN  [setTimeout(v, id, delay) EXCEPT !.loop._timeoutId = id]
    : v \in {w}})

_cancel_next_step(w) == The({
    IF v.loop._timeoutId # NoId /\ ~v.loop._RAFActive
    THEN [clearTimeout(v, v.loop._timeoutId) EXCEPT !.loop._timeoutId = NoId]
    ELSE IF v.loop._RAFId # NoId /\ v.loop._RAFActive
    THEN [cancelAnimationFrame(v, v.loop._RAFId) EXCEPT !.loop._RAFId = NoId]
    ELSE v
    : v \in {w}})

\* a variant of _check_for_end_trigger that lets the cycle numbered by the lifespan run
EndTriggerPastLifespan(l) ==
    l._kill \/ (Truthy(l._lifespan) /\ l._step_num > Val(l._lifespan))

_check_for_end_trigger(l) ==
    l._kill \/ (Truthy(l._lifespan) /\ l._step_num >= Val(l._lifespan))

\* a variant of _init that leaves the kill flag as it finds it
InitKeepingKill(w, h) ==
    LET w1 == [w EXCEPT !.loop._initialized = TRUE,
                        !.loop._step_num = 0]
    IN  Catch(CallHook(w1, "initial", h.initial), "initial")

_init(w, h) ==
    LET w1 == [w EXCEPT !.loop._kill = FALSE,
                        !.loop._initialized = TRUE,
                        !.loop._step_num = 0]
    IN  Catch(CallHook(w1, "initial", h.initial), "initial")

\* a variant of _term that also resets the step count
TermResettingStep(w, h) ==
    LET w1 == [w EXCEPT !.loop._running = FALSE, !.loop._paused = FALSE, !.loop._step_num = 0]
        w2 == _cancel_next_step(w1)
        w3 == [w2 EXCEPT !.loop._kill = TRUE]
    IN  Catch(CallHook(w3, "final", h.final), "final")

\* a variant of _term that calls final() outside any try block
TermUncaught(w, h) ==
    LET w1 == [w EXCEPT !.loop._running = FALSE, !.loop._paused = FALSE]
        w2 == _cancel_next_step(w1)
        w3 == [w2 EXCEPT !.loop._kill = TRUE]
    IN  CallHook(w3, "final", h.final)

\* a variant of _term that leaves the running flag as it finds it
TermStillRunning(w, h) ==
    LET w1 == [w EXCEPT !.loop._paused = FALSE]
        w2 == _cancel_next_step(w1)
        w3 == [w2 EXCEPT !.loop._kill = TRUE]
    IN  Catch(CallHook(w3, "final", h.final), "final")

_term(w, h) ==
    LET w1 == [w EXCEPT !.loop._running = FALSE, !.loop._paused = FALSE]
        w2 == _cancel_next_step(w1)
        w3 == [w2 EXCEPT !.loop._kill = TRUE]
    IN  Catch(CallHook(w3, "final", h.final), "final")

\* a variant of pause without its guard
PauseUnguarded(w, h) ==
    LET w1 == [w EXCEPT !.loop._running = FALSE, !.loop._paused = TRUE]
    IN  CallHook(_cancel_next_step(w1), "on_pause", h.on_pause)

pause(w, h) ==
    IF ~w.loop._initialized \/ ~w.loop._running \/ w.loop._kill THEN w
    ELSE LET w1 == [w EXCEPT !.loop._running = FALSE, !.loop._paused = TRUE]
         IN  CallHook(_cancel_next_step(w1), "on_pause", h.on_pause)

\* a variant of finish that sets the flags and cancels, and leaves out _term
FinishWithoutTerm(w, h) ==
    IF ~w.loop._initialized \/ w.loop._kill THEN w
    ELSE LET w1 == [w EXCEPT !.loop._running = FALSE,
                             !.loop._paused = FALSE,
                             !.loop._kill = TRUE]
         IN  _cancel_next_step(w1)

\* a variant of finish that does not test the kill flag
FinishUnguarded(w, h) ==
    IF ~w.loop._initialized THEN w
    ELSE LET w1 == [w EXCEPT !.loop._running = FALSE,
                             !.loop._paused = FALSE,
                             !.loop._kill = TRUE]
         IN  _term(_cancel_next_step(w1), h)

finish(w, h) ==
    IF ~w.loop._initialized \/ w.loop._kill THEN w
    ELSE LET w1 == [w EXCEPT !.loop._running = FALSE,
                             !.loop._paused = FALSE,
                             !.loop._kill = TRUE]
         IN  _term(_cancel_next_step(w1), h)

\* A hook of a cycle is invoked.  The override may call a public method of
\* the loop before it returns: with outcome "pause" it calls this.pause(), with
\* outcome "finish" it calls this.finish().
Invoke(w, name, h) == The({
    IF h[name] = "pause" THEN pause(v, h)
    ELSE IF h[name] = "finish" THEN finish(v, h)
    ELSE v
    : v \in {CallHook(w, name, h[name])}})

\* a variant of _run that also makes the termination check at the end of the
\* cycle, and terminates there instead of requesting the next tick
RunTerminatingAtEnd(w, timestamp, h) == The({
    IF ~v.loop._running THEN v
    ELSE IF _check_for_end_trigger(v.loop) THEN _term(v, h)
    ELSE LET w1 == Background(v, h)
         IN  IF Thrown(w1) THEN w1
             ELSE LET w2 == Catch(Invoke(w1, "before", h), "before")
                      w3 == Catch(Invoke(w2, "step", h), "step")
                      w4 == Catch(Invoke(w3, "after", h), "after")
                      w5 == [w4 EXCEPT
                                !.loop._step_num = @ + 1,
                                !.loop._lastStepDuration = timestamp - w4.loop._lastStepTime,
                                !.loop._lastStepTime = timestamp]
                  IN  IF _check_for_end_trigger(w5.loop) THEN _term(w5, h)
                      ELSE _request_next_step(w5, timestamp)
    : v \in {w}})

\* a variant of _run that counts the step before it calls the hooks of the cycle
RunCountingFirst(w, timestamp, h) == The({
    IF ~v.loop._running THEN v
    ELSE IF _check_for_end_trigger(v.loop) THEN _term(v, h)
    ELSE LET w0 == [v EXCEPT !.loop._step_num = @ + 1]
             w1 == Background(w0, h)
         IN  IF Thrown(w1) THEN w1
             ELSE LET w2 == Catch(Invoke(w1, "before", h), "before")
                      w3 == Catch(Invoke(w2, "step", h), "step")
                      w4 == Catch(Invoke(w3, "after", h), "after")
                      w5 == [w4 EXCEPT
                                !.loop._lastStepDuration = timestamp - w4.loop._lastStepTime,
                                !.loop._lastStepTime = timestamp]
                  IN  _request_next_step(w5, timestamp)
    : v \in {w}})

\* a variant of _run with one try block around the three hooks of the cycle:
\* a hook that throws skips the hooks after it
RunOneTry(w, timestamp, h) == The({
    IF ~v.loop._running THEN v
    ELSE IF _check_for_end_trigger(v.loop) THEN _term(v, h)
    ELSE LET w1 == Background(v, h)
         IN  IF Thrown(w1) THEN w1
             ELSE LET w2 == Invoke(w1, "before", h)
                      w3 == IF Thrown(w2) THEN w2 ELSE Invoke(w2, "step", h)
                      w4 == Catch(IF Thrown(w3) THEN w3 ELSE Invoke(w3, "after", h), "after")
                      w5 == [w4 EXCEPT
                                !.loop._step_num = @ + 1,
                                !.loop._lastStepDuration = timestamp - w4.loop._lastStepTime,
                                !.loop._lastStepTime = timestamp]
                  IN  _request_next_step(w5, timestamp)
    : v \in {w}})

\* a variant of _run that awaits the promise of background(): while it is
\* unsettled the rest of the cycle does not run
RunAwaitingBackground(w, timestamp, h) == The({
    IF ~v.loop._running THEN v
    ELSE IF _check_for_end_trigger(v.loop) THEN _term(v, h)
    ELSE LET w1 == Background(v, h)
         IN  IF Thrown(w1) \/ h.background = "pending" THEN w1
             ELSE LET w2 == Catch(Invoke(w1, "before", h), "before")
                      w3 == Catch(Invoke(w2, "step", h), "step")
                      w4 == Catch(Invoke(w3, "after", h), "after")
                      w5 == [w4 EXCEPT
                                !.loop._step_num = @ + 1,
                                !.loop._lastStepDuration = timestamp - w4.loop._lastStepTime,
                                !.loop._lastStepTime = timestamp]
                  IN  _request_next_step(w5, timestamp)
    : v \in {w}})

\* a variant of _run without the test of the running flag
RunUnguarded(w, timestamp, h) == The({
    IF _check_for_end_trigger(v.loop) THEN _term(v, h)
    ELSE LET w1 == Background(v, h)
         IN  IF Thrown(w1) THEN w1
             ELSE LET w2 == Catch(Invoke(w1, "before", h), "before")
                      w3 == Catch(Invoke(w2, "step", h), "step")
                      w4 == Catch(Invoke(w3, "after", h), "after")
                      w5 == [w4 EXCEPT
                                !.loop._step_num = @ + 1,
                                !.loop._lastStepDuration = timestamp - w4.loop._lastStepTime,
                                !.loop._lastStepTime = timestamp]
                  IN  _request_next_step(w5, timestamp)
    : v \in {w}})

_run(w, timestamp, h) == The({
    IF ~v.loop._running THEN v
    ELSE IF _check_for_end_trigger(v.loop) THEN _term(v, h)
    ELSE LET w1 == Background(v, h)
         IN  IF Thrown(w1) THEN w1   \* background() is called outside any try block
             ELSE LET w2 == Catch(Invoke(w1, "before", h), "before")
                      w3 == Catch(Invoke(w2, "step", h), "step")
                      w4 == Catch(Invoke(w3, "after", h), "after")
                      w5 == [w4 EXCEPT
                                !.loop._step_num = @ + 1,
                                !.loop._lastStepDuration = timestamp - w4.loop._lastStepTime,
                                !.loop._lastStepTime = timestamp]
                  IN  _request_next_step(w5, timestamp)
    : v \in {w}})

_main(w, h) == The({ _run(v, v.now, h) : v \in {_init(w, h)} })

----------------------------------------------------------------------------
(* Public methods *)

\* a variant of set_sps that stores the rate and leaves the interval as it finds it
SetSpsStaleInterval(w, sps) ==
    [w EXCEPT !.loop._sps = sps]

set_sps(w, sps) ==
    [w EXCEPT !.loop._sps = sps, !.loop._interval = Interval(sps)]

\* the value set_sps returns
set_sps_ret(w, sps) == set_sps(w, sps).loop._sps

\* a variant of set_use_RAF that cancels the tick in flight
SetUseRAFCancelling(w, status) ==
    [_cancel_next_step(w) EXCEPT !.loop._RAFActive = status]

set_use_RAF(w, status) ==
    [w EXCEPT !.loop._RAFActive = status]

\* the value set_use_RAF returns
set_use_RAF_ret(w, status) == set_use_RAF(w, status).loop._RAFActive

\* a variant of extend_lifespan without the test of the initialized flag
ExtendUninitialized(w, steps) ==
    IF ~IsNumber(steps) THEN [w EXCEPT !.loop._lifespan = undefined]
    ELSE LET new == (IF Truthy(w.loop._lifespan) THEN Val(w.loop._lifespan) ELSE 0) + Val(steps)
         IN  [w EXCEPT !.loop._lifespan = Num(new),
                       !.loop._kill = IF @ /\ new > w.loop._step_num THEN FALSE ELSE @]

\* a variant of extend_lifespan that never clears the kill flag
ExtendKeepingKill(w, steps) ==
    IF ~w.loop._initialized THEN w
    ELSE IF ~IsNumber(steps) THEN [w EXCEPT !.loop._lifespan = undefined]
    ELSE LET new == (IF Truthy(w.loop._lifespan) THEN Val(w.loop._lifespan) ELSE 0) + Val(steps)
         IN  [w EXCEPT !.loop._lifespan = Num(new)]

extend_lifespan(w, steps) ==
    IF ~w.loop._initialized THEN w
    ELSE IF ~IsNumber(steps) THEN [w EXCEPT !.loop._lifespan = undefined]
    ELSE LET new == (IF Truthy(w.loop._lifespan) THEN Val(w.loop._lifespan) ELSE 0) + Val(steps)
         IN  [w EXCEPT !.loop._lifespan = Num(new),
                       !.loop._kill = IF @ /\ new > w.loop._step_num THEN FALSE ELSE @]

\* the value extend_lifespan returns
extend_lifespan_ret(w, steps) ==
    IF ~w.loop._initialized THEN undefined ELSE extend_lifespan(w, steps).loop._lifespan

\* a variant of play that leaves _startTime as it finds it
PlayKeepingAnchor(w, h) ==
    IF ~w.loop._initialized \/ w.loop._running \/ w.loop._kill THEN w
    ELSE LET w1 == [w EXCEPT !.loop._running = TRUE,
                             !.loop._paused = FALSE]
             w2 == CallHook(w1, "on_play", h.on_play)
         IN  IF Thrown(w2) THEN w2 ELSE _run(w2, w2.now, h)

play(w, h) ==
    IF ~w.loop._initialized \/ w.loop._running \/ w.loop._kill THEN w
    ELSE LET w1 == [w EXCEPT !.loop._running = TRUE,
                             !.loop._paused = FALSE,
                             !.loop._startTime = w.now - (w.loop._step_num * w.loop._interval)]
             w2 == CallHook(w1, "on_play", h.on_play)
         IN  IF Thrown(w2) THEN w2 ELSE _run(w2, w2.now, h)

start(w, h) ==
    LET w1 == [w EXCEPT !.loop._running = TRUE, !.loop._startTime = w.now]
    IN  _main(w1, h)

----------------------------------------------------------------------------
(* The state machine *)

NoCalls == [n \in Counted |-> 0]
NoErrors == [n \in Reported |-> 0]

\* the world an operation starts in
World == [loop |-> loop, pending |-> pending, now |-> now, calls |-> calls, seen |-> seen,
          errors |-> errors, tasks |-> tasks, microtasks |-> microtasks,
          log |-> <<>>, exc |-> "none"]

\* the operation has returned (or its exception has escaped): its effects are the new state
Commit(w) ==
    \E v \in {w} :
        /\ loop' = v.loop
        /\ pending' = v.pending
        /\ now' = v.now
        /\ calls' = v.calls
        /\ seen' = v.seen
        /\ errors' = v.errors
        /\ tasks' = v.tasks
        /\ microtasks' = v.microtasks

\* a loop has been constructed, in a browser (avail) or not, and nothing else has happened
InitWith(R, L) ==
    /\ \E sps \in R, lifespan \in L, RAF \in BOOLEAN, avail \in BOOLEAN :
          loop = constructor(sps, lifespan, RAF, avail)
    /\ pending = {}
    /\ now = 0
    /\ calls = NoCalls
    /\ seen = <<>>
    /\ errors = NoErrors
    /\ tasks = {}
    /\ microtasks = 0

\* the world start() is called in: the host's counts are those of the new lifecycle
StartWorld == [World EXCEPT !.calls = NoCalls, !.seen = <<>>, !.errors = NoErrors]

Start(H) == \E h \in H : Commit(start(StartWorld, h))

Pause(H) == \E h \in H : Commit(pause(World, h))

Play(H) == \E h \in H : Commit(play(World, h))

Finish(H) == \E h \in H : Commit(finish(World, h))

SetSps(R) == \E sps \in R : Commit(set_sps(World, sps))

SetUseRAF == \E status \in BOOLEAN : Commit(set_use_RAF(World, status))

ExtendLifespan(D) == \E steps \in D : Commit(extend_lifespan(World, steps))

\* the world in which callback cb, pending in world w, begins at time t: cb is no longer pending
FireIn(w, cb, t) == [w EXCEPT !.pending = @ \ {cb}, !.now = t]

\* the world in which pending callback cb begins at time t
FireWorld(cb, t) == FireIn(World, cb, t)

\* The readings of the clock at which the callback of a pending timer or
\* frame may begin.  The environment measures the delay of a timer on a clock
\* of its own, so that the callback may begin up to MaxEarly ms before
\* performance.now() reads the due time, and it begins at most `late` ms after
\* the first moment the due time has been read.  The callback of a frame
\* (whose due time is the time of the request) begins at any later moment.
FireTimes(cb, late) == Max(now, cb.due - MaxEarly) .. (Max(now, cb.due) + late)

\* The timestamps the callback beginning at time t is run with.  The callback
\* of a timer reads performance.now().  The callback of a frame receives the
\* timestamp of the frame, which the environment took on a clock of its own
\* when the frame began: it is up to `lag` ms below and up to `lead` ms above
\* what performance.now() reads when the callback begins, and may be below
\* the time of the request, below _startTime, below the timestamp of the
\* cycle before and below 0.
Timestamps(cb, t, lag, lead) == IF cb.kind = "raf" THEN (t - lag) .. (t + lead) ELSE {t}

\* the timestamps of a callback beginning at time t, within the largest lag
\* and lead of a frame
FrameStamps(cb, t) == Timestamps(cb, t, MaxFrameLag, MaxFrameLead)

\* the world after pending callback cb has begun at time t with timestamp ts, on host h
Tick(cb, t, ts, h) == _run(FireWorld(cb, t), ts, h)

\* the worlds a pending callback may leave on host h, over the times it may
\* begin at (at most `late` ms late) and the timestamps it may be run with
Ticks(cb, h, late) ==
    UNION {{Tick(cb, t, ts, h) : ts \in FrameStamps(cb, t)} : t \in FireTimes(cb, late)}

\* time passes until a pending timer may fire and the timer fires, no later than
\* `horizon`: its callback calls _run(performance.now())
\* a callback is a task of the event loop: none starts while a microtask is queued
FireTimeout(H, late, horizon) ==
    \E cb \in pending, h \in H :
        /\ microtasks = 0
        /\ cb.kind = "timeout"
        /\ \E t \in FireTimes(cb, late) :
              /\ t <= horizon
              /\ Commit(Tick(cb, t, t, h))

\* time passes until the next frame and a pending animation-frame callback
\* fires, no later than `horizon`: it calls _run(nextTimestamp), the timestamp
\* of the frame being at most `lag` ms below and `lead` ms above the clock
FireRAF(H, late, horizon, lag, lead) ==
    \E cb \in pending, h \in H :
        /\ microtasks = 0
        /\ cb.kind = "raf"
        /\ \E t \in FireTimes(cb, late) :
              /\ t <= horizon
              /\ \E ts \in Timestamps(cb, t, lag, lead) : Commit(Tick(cb, t, ts, h))

\* a ms passes in which no callback begins and no call is made, up to `horizon`
Elapse(horizon) ==
    /\ now + 1 <= horizon
    /\ now' = now + 1
    /\ UNCHANGED <<loop, pending, calls, seen, errors, tasks, microtasks>>

\* a queued handler runs: error => { console.error('Error in background():', error) }
RunMicrotask ==
    /\ microtasks > 0
    /\ microtasks' = microtasks - 1
    /\ errors' = [errors EXCEPT !["background"] = @ + 1]
    /\ UNCHANGED <<loop, pending, now, calls, seen, tasks>>

----------------------------------------------------------------------------
(* The general specification: any sequence of control calls and tick       *)
(* firings, with any time passing between them, on a host whose hooks      *)
(* return.                                                                 *)

\* the bounds of the model, as a guard on the state an operation ends in
WithinBounds ==
    /\ loop._step_num <= MaxStep
    /\ Cardinality(pending) <= MaxPending
    /\ IsNumber(loop._lifespan) => Val(loop._lifespan) <= MaxLifespan
    /\ calls["final"] <= MaxFinals

Init == InitWith(Rates, Lifespans)

Next ==
    \/ Start(ReturningHosts) /\ WithinBounds'
    \/ Pause(ReturningHosts) /\ WithinBounds'
    \/ Play(ReturningHosts) /\ WithinBounds'
    \/ Finish(ReturningHosts) /\ WithinBounds'
    \/ SetSps(Rates) /\ WithinBounds'
    \/ SetUseRAF /\ WithinBounds'
    \/ ExtendLifespan(Deltas) /\ WithinBounds'
    \/ FireTimeout(ReturningHosts, 0, MaxTime) /\ WithinBounds'
    \/ FireRAF(ReturningHosts, 0, MaxTime, MaxFrameLag, MaxFrameLead) /\ WithinBounds'
    \/ Elapse(MaxTime)

Spec == Init /\ [][Next]_vars

----------------------------------------------------------------------------
(* The specification of faulty hosts: as the general one, at a single      *)
(* rate and with the animation-frame toggle left as constructed, on a host *)
(* one hook of which may fail where the code has no handler around the     *)
(* call.                                                                   *)

InitFaults == InitWith(FaultRates, Lifespans)

NextFaults ==
    \/ Start(ReturningHosts \cup StartFaults) /\ WithinBounds'
    \/ Pause(ReturningHosts \cup PauseFaults) /\ WithinBounds'
    \/ Play(ReturningHosts \cup PlayFaults) /\ WithinBounds'
    \/ Finish(ReturningHosts) /\ WithinBounds'
    \/ ExtendLifespan(Deltas) /\ WithinBounds'
    \/ FireTimeout(ReturningHosts \cup TickFaults, 0, MaxTime) /\ WithinBounds'
    \/ FireRAF(ReturningHosts \cup TickFaults, 0, MaxTime, MaxFrameLag, MaxFrameLead) /\ WithinBounds'
    \/ Elapse(MaxTime)

SpecFaults == InitFaults /\ [][NextFaults]_vars

----------------------------------------------------------------------------
(* The specification of a single run: a loop of lifespan N >= 1 is         *)
(* constructed and started, no other control call is made, and its ticks   *)
(* fire, each timer from MaxEarly ms before its due time to MaxLate ms     *)
(* after it, each frame up to MaxLate ms after its request.  On any cycle, *)
(* any of before(), step() and after() may throw.                          *)

\* no tick of a single run fires later than this
RunHorizon == (MaxRunLifespan + 1) * ((1000 \div 500) + MaxLate)

InitRun == InitWith(Rates, RunLifespans)

\* start() is called once, on the constructed loop
StartRun == ~loop._initialized /\ Start(CycleFaultHosts)

TimeoutRun == FireTimeout(CycleFaultHosts, MaxLate, RunHorizon)

RAFRun == FireRAF(CycleFaultHosts, MaxLate, RunHorizon, MaxFrameLag, MaxFrameLead)

NextRun ==
    \/ StartRun
    \/ TimeoutRun
    \/ RAFRun

\* start() is called, and the environment fires every callback it holds
FairRun == WF_vars(StartRun) /\ WF_vars(TimeoutRun) /\ WF_vars(RAFRun)

SpecRun == InitRun /\ [][NextRun]_vars /\ FairRun

----------------------------------------------------------------------------
(* The specification of an extended run: a loop of lifespan L >= 1 is      *)
(* constructed, started and left to run until it terminates; then its      *)
(* lifespan is extended by d > 0, play() is called, and the ticks fire     *)
(* again.                                                                  *)

ExtendHorizon == (MaxExtendLifespan + MaxDelta + 2) * ((1000 \div 500) + MaxLate)

InitExtend == InitWith(Rates, ExtendLifespans)

StartExtend == ~loop._initialized /\ Start(ExtendHosts)

\* extend_lifespan(d) is called once, on the loop that has terminated by itself
ExtendExtend == loop._kill /\ calls["final"] = 1 /\ ExtendLifespan(PositiveDeltas)

\* play() is called on the loop whose lifespan has been extended
PlayExtend == loop._initialized /\ ~loop._running /\ ~loop._kill /\ Play(ExtendHosts)

TimeoutExtend == FireTimeout(ExtendHosts, MaxLate, ExtendHorizon)

RAFExtend == FireRAF(ExtendHosts, MaxLate, ExtendHorizon, MaxFrameLag, MaxFrameLead)

\* time passes while the loop is stopped, before extend_lifespan() and play()
\* are called; play() is called early enough for the cycles it resumes to end
\* by the horizon
ElapseExtend ==
    /\ loop._initialized
    /\ ~is_running(loop)
    /\ Elapse(ExtendHorizon - ((MaxDelta + 1) * ((1000 \div 500) + MaxLate)))

NextExtend ==
    \/ StartExtend
    \/ ExtendExtend
    \/ PlayExtend
    \/ TimeoutExtend
    \/ RAFExtend
    \/ ElapseExtend
    \/ RunMicrotask

FairExtend ==
    /\ WF_vars(StartExtend)
    /\ WF_vars(PlayExtend)
    /\ WF_vars(TimeoutExtend)
    /\ WF_vars(RAFExtend)
    /\ WF_vars(RunMicrotask)

SpecExtend == InitExtend /\ [][NextExtend]_vars /\ FairExtend

----------------------------------------------------------------------------
(* The specification of a timed run: a loop on the fixed-interval          *)
(* scheduler is constructed and started, no other control call is made,    *)
(* the clock advances ms by ms, and every timer fires up to MaxEarly ms     *)
(* before it is due, when it is due, or later, less than one interval      *)
(* late.  The hooks return at once.                                        *)

TimedHorizon == (MaxTimedLifespan + 1) * (1000 \div 250)

InitTimed ==
    /\ \E sps \in TimedRates, avail \in BOOLEAN :
          loop = constructor(sps, Num(MaxTimedLifespan), FALSE, avail)
    /\ pending = {}
    /\ now = 0
    /\ calls = NoCalls
    /\ seen = <<>>
    /\ errors = NoErrors
    /\ tasks = {}
    /\ microtasks = 0

StartTimed == ~loop._initialized /\ Start(ReturningHosts)

\* a ms passes: no timer is left pending a whole interval after it is due
ElapseTimed ==
    /\ loop._initialized
    /\ \A cb \in pending : now + 1 < cb.due + loop._interval
    /\ Elapse(TimedHorizon)

\* a timer fires at the reading of the clock, which is one its callback may begin at
TimeoutTimed ==
    \E cb \in pending :
        /\ cb.kind = "timeout"
        /\ now \in FireTimes(cb, 0)
        /\ microtasks = 0
        /\ Commit(Tick(cb, now, now, DefaultHost))

NextTimed ==
    \/ StartTimed
    \/ ElapseTimed
    \/ TimeoutTimed

SpecTimed == InitTimed /\ [][NextTimed]_vars

----------------------------------------------------------------------------
(* The specification of a limited loop: a loop is constructed with a       *)
(* lifespan of at least 1, any sequence of control calls and tick firings  *)
(* follows, and extend_lifespan is called with non-negative numbers only.  *)

\* constructor lifespans of a limited loop
LimitedLifespans == {Num(n) : n \in 1..MaxLifespan}
\* arguments of extend_lifespan that never shorten or remove the lifespan
NonNegativeDeltas == {Num(d) : d \in 0..MaxDelta}

InitLimited == InitWith(Rates, LimitedLifespans)

NextLimited ==
    \/ Start(ReturningHosts) /\ WithinBounds'
    \/ Pause(ReturningHosts) /\ WithinBounds'
    \/ Play(ReturningHosts) /\ WithinBounds'
    \/ Finish(ReturningHosts) /\ WithinBounds'
    \/ SetSps(Rates) /\ WithinBounds'
    \/ SetUseRAF /\ WithinBounds'
    \/ ExtendLifespan(NonNegativeDeltas) /\ WithinBounds'
    \/ FireTimeout(ReturningHosts, 0, MaxTime) /\ WithinBounds'
    \/ FireRAF(ReturningHosts, 0, MaxTime, MaxFrameLag, MaxFrameLead) /\ WithinBounds'
    \/ Elapse(MaxTime)

SpecLimited == InitLimited /\ [][NextLimited]_vars

----------------------------------------------------------------------------
(* The specification of a loop whose hooks call back into it: any sequence *)
(* of control calls and tick firings, on a host one cycle hook of which    *)
(* may call pause() or finish() on the loop before it returns.             *)

InitReentrant == InitWith(FaultRates, Lifespans)

NextReentrant ==
    \/ Start(ReentrantHosts) /\ WithinBounds'
    \/ Pause(ReturningHosts) /\ WithinBounds'
    \/ Play(ReentrantHosts) /\ WithinBounds'
    \/ Finish(ReturningHosts) /\ WithinBounds'
    \/ ExtendLifespan(PositiveDeltas) /\ WithinBounds'
    \/ FireTimeout(ReentrantHosts, 0, MaxTime) /\ WithinBounds'
    \/ FireRAF(ReentrantHosts, 0, MaxTime, MaxFrameLag, MaxFrameLead) /\ WithinBounds'
    \/ Elapse(MaxTime)

SpecReentrant == InitReentrant /\ [][NextReentrant]_vars

----------------------------------------------------------------------------
(* The specification of a run with background work: a loop of lifespan     *)
(* N >= 1 is constructed and started, no other control call is made, and   *)
(* its ticks fire.  The promise background() returns on a cycle is settled *)
(* when background() returns, or is left unsettled; an unsettled promise   *)
(* resolves or rejects at any later moment, or never.                      *)

BackgroundHosts == {DefaultHost, BackgroundRejects, BackgroundPending}

InitBackground == InitWith(FaultRates, RunLifespans)

StartBackground == ~loop._initialized /\ Start(BackgroundHosts)

TimeoutBackground == FireTimeout(BackgroundHosts, 0, RunHorizon)

RAFBackground == FireRAF(BackgroundHosts, 0, RunHorizon, MaxFrameLag, MaxFrameLead)

\* time passes between the callbacks of the run and the settling of the promises
ElapseBackground == loop._initialized /\ Elapse(MaxRunLifespan + 1)

\* an unsettled promise of background() settles: nothing happens when it
\* resolves, the handler given to catch() is queued as a microtask when it rejects
Settle ==
    \E n \in tasks, outcome \in {"resolve", "reject"} :
        /\ tasks' = tasks \ {n}
        /\ microtasks' = IF outcome = "reject" THEN microtasks + 1 ELSE microtasks
        /\ UNCHANGED <<loop, pending, now, calls, seen, errors>>

NextBackground ==
    \/ StartBackground
    \/ TimeoutBackground
    \/ RAFBackground
    \/ ElapseBackground
    \/ Settle
    \/ RunMicrotask

\* start() is called, the environment fires every callback it holds and runs
\* every microtask queued; no promise of background() has to settle
FairBackground ==
    /\ WF_vars(StartBackground)
    /\ WF_vars(TimeoutBackground)
    /\ WF_vars(RAFBackground)
    /\ WF_vars(RunMicrotask)

SpecBackground == InitBackground /\ [][NextBackground]_vars /\ FairBackground

----------------------------------------------------------------------------
(* The specification of a loop constructed at any time: the clock reads 0  *)
(* or more when the loop is constructed; any sequence of start(), pause(), *)
(* play() and finish() follows, with any time passing between the calls,   *)
(* every timer fires from MaxEarly ms before it is due to MaxLate ms after *)
(* it, and the hooks return at once.                                       *)

\* no timer fires later than this
ClockHorizon == MaxTime + 2

InitClock ==
    /\ \E sps \in Rates, lifespan \in Lifespans, RAF \in BOOLEAN, avail \in BOOLEAN :
          loop = constructor(sps, lifespan, RAF, avail)
    /\ pending = {}
    /\ now \in 0..MaxTime
    /\ calls = NoCalls
    /\ seen = <<>>
    /\ errors = NoErrors
    /\ tasks = {}
    /\ microtasks = 0

NextClock ==
    \/ Start(ReturningHosts) /\ WithinBounds'
    \/ Pause(ReturningHosts) /\ WithinBounds'
    \/ Play(ReturningHosts) /\ WithinBounds'
    \/ Finish(ReturningHosts) /\ WithinBounds'
    \/ FireTimeout(ReturningHosts, MaxLate, ClockHorizon) /\ WithinBounds'
    \/ FireRAF(ReturningHosts, MaxLate, ClockHorizon, MaxFrameLag, MaxFrameLead) /\ WithinBounds'
    \/ Elapse(ClockHorizon)

SpecClock == InitClock /\ [][NextClock]_vars

----------------------------------------------------------------------------
(* Properties *)

\* the hooks an operation has invoked, in the order of invocation
Hooks(w) == [i \in 1..Len(w.log) |-> w.log[i].hook]

\* the sequence 0, 1, ..., n - 1
UpTo(n) == [i \in 1..n |-> i - 1]

\* C1: a loop of lifespan N >= 1 that is started and whose ticks fire, with no
\* other control call, eventually terminates; once terminated it stays so, and
\* in every terminated state the step count is exactly N, final() has been
\* invoked exactly once and the loop is not running.
C1_RunTerminates ==
    /\ <>loop._kill
    /\ [][loop._kill => loop._kill']_vars
    /\ [](loop._kill => /\ get_step(loop) = Val(loop._lifespan)
                        /\ calls["final"] = 1
                        /\ ~is_running(loop))

\* a run of the largest lifespan, at 500 steps per second, has terminated
C1_Terminated ==
    /\ loop._kill
    /\ get_step(loop) = MaxRunLifespan
    /\ get_sps(loop) = 500
    /\ calls["final"] = 1
    /\ pending = {}

\* C2: every cycle invokes background, before, step, after in this order, all
\* at the same step count; the values of get_step() that step() has read since
\* start() are 0, 1, ..., one per completed cycle, and are exactly 0 .. N - 1
\* once a run of lifespan N has terminated.
C2_StepsInOrder ==
    /\ seen = UpTo(get_step(loop))
    /\ loop._kill => seen = UpTo(Val(loop._lifespan))
    /\ ~loop._initialized =>
          \A h \in HandledHosts :
              Hooks(start(StartWorld, h)) = <<"initial", "background", "before", "step", "after">>
    /\ \A cb \in pending, h \in HandledHosts :
          get_step(loop) < Val(loop._lifespan) =>
              \A w \in Ticks(cb, h, MaxLate) :
                  /\ Hooks(w) = <<"background", "before", "step", "after">>
                  /\ \A i \in 1..4 : w.log[i].step = get_step(loop)

\* a run of the largest lifespan has terminated, and step() has read every step count
C2_AllStepsSeen ==
    /\ loop._kill
    /\ Len(seen) = MaxRunLifespan
    /\ seen[MaxRunLifespan] = MaxRunLifespan - 1

\* C3: whichever of before, step and after throw, on whichever cycles of a run
\* of lifespan N: no exception escapes the cycle, the step count advances by
\* one, the next tick is scheduled, each of the three hooks has been invoked
\* once per cycle, and the loop terminates with a step count of N.
C3_CycleFaultsIsolated ==
    /\ [](/\ calls["before"] = get_step(loop)
          /\ calls["step"] = get_step(loop)
          /\ calls["after"] = get_step(loop)
          /\ \A cb \in pending, h \in CycleFaultHosts :
                get_step(loop) < Val(loop._lifespan) =>
                    \A w \in Ticks(cb, h, MaxLate) :
                        /\ ~Thrown(w)
                        /\ get_step(w.loop) = get_step(loop) + 1
                        /\ is_running(w.loop)
                        /\ Cardinality(w.pending) = 1)
    /\ <>(/\ loop._kill
          /\ get_step(loop) = Val(loop._lifespan)
          /\ calls["before"] = Val(loop._lifespan)
          /\ calls["step"] = Val(loop._lifespan)
          /\ calls["after"] = Val(loop._lifespan))

\* a run of the largest lifespan has terminated after step() threw on exactly
\* one cycle and before() on exactly another number of cycles
C3_TerminatedAfterFaults ==
    /\ loop._kill
    /\ get_step(loop) = MaxRunLifespan
    /\ errors["step"] = 1
    /\ errors["before"] = 2
    /\ errors["after"] = 0
    /\ calls["step"] = MaxRunLifespan
    /\ calls["after"] = MaxRunLifespan

\* C4: while the loop is paused and not running, no operation but play() and
\* start() makes it run or changes the step count: neither a tick that fires,
\* nor set_sps, set_use_RAF, extend_lifespan, pause or finish.
C4_PausedStaysPut ==
    [][(is_paused(loop) /\ ~is_running(loop)) =>
          \/ ~is_running(loop') /\ get_step(loop') = get_step(loop)
          \/ Play(ReturningHosts)
          \/ Start(ReturningHosts)]_vars

\* pause() has taken effect after at least one cycle, and a tick is still pending
C4_PausedWithTick ==
    /\ is_paused(loop)
    /\ ~is_running(loop)
    /\ ~loop._kill
    /\ get_step(loop) >= 1
    /\ pending # {}

\* C5: play() on a paused loop that has not terminated and has not reached its
\* lifespan leaves the loop running and not paused, invokes on_play exactly
\* once, runs exactly one cycle before it returns, and leaves exactly one
\* callback pending.
C5_PlayResumes ==
    \A h \in ReturningHosts :
        (loop._initialized /\ is_paused(loop) /\ ~_check_for_end_trigger(loop)) =>
            /\ is_running(play(World, h).loop)
            /\ ~is_paused(play(World, h).loop)
            /\ Hooks(play(World, h)) = <<"on_play", "background", "before", "step", "after">>
            /\ get_step(play(World, h).loop) = get_step(loop) + 1
            /\ Cardinality(play(World, h).pending) = 1

\* C6: on a loop that has terminated by itself at lifespan L, extend_lifespan(d)
\* with d > 0 returns and stores L + d and clears the kill flag; a following
\* play() invokes no initial(), runs the cycle numbered L and leaves the loop
\* running with a step count of L + 1; the lifespan changes at no other moment,
\* and the resumed loop terminates again, with a step count equal to the
\* extended lifespan and a second invocation of final().
C6_ExtendResumes ==
    /\ []((loop._kill /\ calls["final"] = 1) =>
            /\ get_step(loop) = Val(loop._lifespan)
            /\ \A d \in PositiveDeltas :
                  /\ extend_lifespan_ret(World, d) = Num(get_step(loop) + Val(d))
                  /\ get_lifespan(extend_lifespan(World, d).loop) = Num(get_step(loop) + Val(d))
                  /\ ~extend_lifespan(World, d).loop._kill
                  /\ \A h \in ExtendHosts :
                        /\ Hooks(play(extend_lifespan(World, d), h))
                              = <<"on_play", "background", "before", "step", "after">>
                        /\ play(extend_lifespan(World, d), h).log[4].step = get_step(loop)
                        /\ get_step(play(extend_lifespan(World, d), h).loop) = get_step(loop) + 1
                        /\ is_running(play(extend_lifespan(World, d), h).loop))
    /\ [](calls["final"] = 2 =>
            /\ loop._kill
            /\ ~is_running(loop)
            /\ get_step(loop) = Val(loop._lifespan))
    /\ [][get_lifespan(loop') # get_lifespan(loop) =>
            /\ loop._kill /\ ~loop'._kill /\ calls["final"] = 1
            /\ get_step(loop') = get_step(loop)]_vars
    /\ (loop._initialized /\ ~loop._kill /\ calls["final"] = 1) ~> (calls["final"] = 2)

\* a loop of lifespan 2 extended by 2 has terminated for the second time, at step 4
C6_TerminatedAgain ==
    /\ loop._kill
    /\ calls["final"] = 2
    /\ get_lifespan(loop) = Num(4)
    /\ get_step(loop) = 4
    /\ seen = UpTo(4)

\* C7: is_running() and is_paused() are never both true.
C7_RunningExcludesPaused == ~(is_running(loop) /\ is_paused(loop))

\* C8: whenever the kill flag is set, the loop is neither running nor paused.
C8_KillExcludesRunningPaused == loop._kill => (~is_running(loop) /\ ~is_paused(loop))

\* a loop has terminated after a cycle, with its lifespan reached or not
C8_Killed ==
    /\ loop._kill
    /\ get_step(loop) >= 1
    /\ calls["final"] = 1

\* C9: at most one callback of the instance is pending.
C9_OnePending == Cardinality(pending) <= 1

\* C10: on return from a pause() or a finish() that takes effect, no callback
\* of the instance is pending.
C10_CancelledOnReturn ==
    \A h \in ReturningHosts :
        /\ (loop._initialized /\ is_running(loop) /\ ~loop._kill) => pause(World, h).pending = {}
        /\ (loop._initialized /\ ~loop._kill) => finish(World, h).pending = {}

\* C11: from every state, start() on a loop whose lifespan is unlimited or at
\* least 1 invokes initial() exactly once, then the hooks of cycle 0, and
\* returns with the kill flag clear, the loop initialized and running, and a
\* step count of 1.
C11_StartFromAnyState ==
    \A h \in {DefaultHost, FailingHost} :
        (~IsNumber(get_lifespan(loop)) \/ Val(get_lifespan(loop)) >= 1) =>
            \A w \in {start(StartWorld, h)} :
                /\ Hooks(w) = <<"initial", "background", "before", "step", "after">>
                /\ ~Thrown(w)
                /\ ~w.loop._kill
                /\ w.loop._initialized
                /\ is_running(w.loop)
                /\ get_step(w.loop) = 1

\* start() has been called on a paused loop, after the clock has advanced
C11_Restarted ==
    /\ is_running(loop)
    /\ is_paused(loop)
    /\ get_step(loop) = 1
    /\ loop._startTime = MaxTime
    /\ ~loop._kill

\* C12: finish() on an initialized loop whose kill flag is clear, running or
\* paused, invokes final() exactly once and no other hook, and returns with
\* the loop not running, not paused and the kill flag set.
C12_FinishTerminates ==
    \A h \in {DefaultHost, FailingHost} :
        (loop._initialized /\ ~loop._kill) =>
            \A w \in {finish(World, h)} :
                /\ Hooks(w) = <<"final">>
                /\ ~Thrown(w)
                /\ ~is_running(w.loop)
                /\ ~is_paused(w.loop)
                /\ w.loop._kill

\* finish() has been called on a loop of unlimited lifespan after two cycles
C12_Finished ==
    /\ loop._kill
    /\ ~IsNumber(get_lifespan(loop))
    /\ get_step(loop) = 2
    /\ calls["final"] = 1
    /\ ~is_running(loop)

\* C13: a step that invokes final() invokes it once, starts with the kill flag
\* clear and ends with it set; and the kill flag, once set, is cleared only by
\* start() or by extend_lifespan().  So neither
\* finish() on a terminated loop nor a tick that fires after termination
\* invokes final() again.
C13_TerminatesOnce ==
    [][/\ calls["final"]' > calls["final"] =>
            /\ ~loop._kill
            /\ loop._kill'
            /\ calls["final"]' = calls["final"] + 1
       /\ (loop._kill /\ ~loop._kill') =>
            \/ Start(ReturningHosts)
            \/ ExtendLifespan(Deltas)]_vars

\* a loop has terminated for the second time since start(), with a callback
\* still pending
C13_TerminatedTwice ==
    /\ loop._kill
    /\ calls["final"] = 2
    /\ pending # {}

\* C14: after finish() on a loop that has not reached its lifespan, no
\* extend_lifespan() clears the kill flag, and a play() that follows runs no
\* cycle.
C14_FinishIsTerminal ==
    \A d \in Deltas :
        (loop._initialized /\ ~loop._kill /\ ~_check_for_end_trigger(loop)) =>
            \A w \in {extend_lifespan(finish(World, DefaultHost), d)} :
                /\ w.loop._kill
                /\ get_step(play(w, DefaultHost).loop) = get_step(loop)
                /\ Hooks(play(w, DefaultHost)) = Hooks(w)

\* C15: pause(), play() and finish() called outside their guards change no
\* field of the loop, no pending callback, invoke no hook and raise nothing.
C15_NoOpOutsideGuards ==
    \A h \in {DefaultHost, FailingHost, OnPauseThrows, OnPlayThrows, BackgroundThrows} :
        /\ ~(loop._initialized /\ is_running(loop) /\ ~loop._kill) => pause(World, h) = World
        /\ ~(loop._initialized /\ ~is_running(loop) /\ ~loop._kill) => play(World, h) = World
        /\ ~(loop._initialized /\ ~loop._kill) => finish(World, h) = World

\* a terminated loop still has a callback pending: all three guards are closed
C15_KilledWithTick ==
    /\ loop._initialized
    /\ loop._kill
    /\ pending # {}
    /\ get_step(loop) >= 1

\* C16: when on_pause throws, pause() raises nothing and leaves the loop
\* paused; when on_play throws, play() raises nothing, runs the resumed cycle
\* and schedules the next tick.
C16_PausePlayFaultsSwallowed ==
    /\ (loop._initialized /\ is_running(loop) /\ ~loop._kill) =>
          \A w \in {pause(World, OnPauseThrows)} :
              /\ ~Thrown(w)
              /\ is_paused(w.loop)
              /\ ~is_running(w.loop)
    /\ (loop._initialized /\ ~is_running(loop) /\ ~loop._kill /\ ~_check_for_end_trigger(loop)) =>
          \A w \in {play(World, OnPlayThrows)} :
              /\ ~Thrown(w)
              /\ Hooks(w) = <<"on_play", "background", "before", "step", "after">>
              /\ get_step(w.loop) = get_step(loop) + 1
              /\ w.pending \ pending # {}

\* C17: when initial() throws, start() raises nothing, runs cycle 0 and
\* schedules the next tick; when final() throws, finish() and the tick that
\* terminates the loop raise nothing and leave the loop not running with the
\* kill flag set; each failure is reported once.
C17_InitFinalFaultsSwallowed ==
    \A h \in InitFinalFaultHosts :
        /\ (~IsNumber(get_lifespan(loop)) \/ Val(get_lifespan(loop)) >= 1) =>
              \A w \in {start(StartWorld, h)} :
                  /\ ~Thrown(w)
                  /\ Hooks(w) = <<"initial", "background", "before", "step", "after">>
                  /\ get_step(w.loop) = 1
                  /\ is_running(w.loop)
                  /\ w.pending \ pending # {}
                  /\ w.errors["initial"] = (IF h.initial = "throw" THEN 1 ELSE 0)
        /\ (loop._initialized /\ ~loop._kill) =>
              \A w \in {finish(World, h)} :
                  /\ ~Thrown(w)
                  /\ Hooks(w) = <<"final">>
                  /\ ~is_running(w.loop)
                  /\ w.loop._kill
                  /\ w.errors["final"] = errors["final"] + (IF h.final = "throw" THEN 1 ELSE 0)
        /\ \A cb \in pending :
              (is_running(loop) /\ _check_for_end_trigger(loop)) =>
                  \A w \in Ticks(cb, h, MaxLate) :
                      /\ ~Thrown(w)
                      /\ Hooks(w) = <<"final">>
                      /\ ~is_running(w.loop)
                      /\ w.loop._kill
                      /\ w.errors["final"] = errors["final"] + (IF h.final = "throw" THEN 1 ELSE 0)

\* a loop whose initial() threw has run to its lifespan and terminated again
\* after an extension, its final() throwing both times
C17_TerminatedWithFaults ==
    /\ loop._kill
    /\ ~is_running(loop)
    /\ errors["initial"] = 1
    /\ errors["final"] = 2
    /\ get_step(loop) = Val(get_lifespan(loop))

\* C18: when background() fails in a cycle, by a rejected promise or by
\* throwing while it is invoked, the cycle still invokes before, step and
\* after, the step count advances by one and the next tick is scheduled.
C18_BackgroundFaultsIsolated ==
    \A h \in {BackgroundRejects, BackgroundThrows} :
        \A cb \in pending :
            (is_running(loop) /\ ~_check_for_end_trigger(loop)) =>
                \A w \in Ticks(cb, h, MaxLate) :
                    /\ Hooks(w) = <<"background", "before", "step", "after">>
                    /\ get_step(w.loop) = get_step(loop) + 1
                    /\ w.pending \ (pending \ {cb}) # {}

\* two worlds that differ at most in the animation-frame toggle
SameButToggle(a, b) ==
    [a EXCEPT !.loop._RAFActive = FALSE] = [b EXCEPT !.loop._RAFActive = FALSE]

\* C19: where requestAnimationFrame is unavailable, every operation has the
\* same effect on a loop with the animation-frame toggle on as on the same
\* loop with the toggle off: same fields, same callbacks pending, same hooks.
C19_ToggleWithoutEffect ==
    ~loop._RAFAvailable =>
        \A on \in {set_use_RAF(World, TRUE)}, off \in {set_use_RAF(World, FALSE)} :
            /\ SameButToggle(start(on, DefaultHost), start(off, DefaultHost))
            /\ SameButToggle(play(on, DefaultHost), play(off, DefaultHost))
            /\ SameButToggle(pause(on, DefaultHost), pause(off, DefaultHost))
            /\ SameButToggle(finish(on, DefaultHost), finish(off, DefaultHost))
            /\ \A cb \in pending :
                  \A t \in FireTimes(cb, MaxLate) :
                      \A ts \in FrameStamps(cb, t) :
                          SameButToggle(_run(FireIn(on, cb, t), ts, DefaultHost),
                                        _run(FireIn(off, cb, t), ts, DefaultHost))

\* C20: start() on a loop constructed with lifespan 0 invokes initial() and
\* final() and no hook of a cycle, and returns with a step count of 0 and the
\* loop not running.
C20_ZeroLifespanTerminates ==
    get_lifespan(loop) = Num(0) =>
        \A w \in {start(StartWorld, DefaultHost)} :
            /\ Hooks(w) = <<"initial", "final">>
            /\ get_step(w.loop) = 0
            /\ ~is_running(w.loop)
            /\ w.loop._kill

\* the number of cycles an ideal loop has completed at the current time
IdealCount == ((now - loop._startTime) \div loop._interval) + 1

\* C21: on the fixed-interval scheduler, with no pause and no rate change and
\* every timer less than one interval late, at every time of a run that has
\* cycles left the number of completed cycles differs from the ideal count
\* floor((t - start_time) / interval) + 1 by at most 1.
C21_NoCumulativeDrift ==
    (is_running(loop) /\ ~_check_for_end_trigger(loop)) =>
        /\ get_step(loop) >= IdealCount - 1
        /\ get_step(loop) <= IdealCount + 1

\* a run at 500 steps per second whose last two cycles have each run 1 ms
\* after their ideal time
C21_LateEveryCycle ==
    /\ is_running(loop)
    /\ get_sps(loop) = 500
    /\ get_step(loop) = MaxTimedLifespan - 1
    /\ now = loop._startTime + ((MaxTimedLifespan - 2) * loop._interval) + 1
    /\ loop._lastStepDuration = loop._interval

\* the loop schedules its ticks with setTimeout
FixedInterval(l) == ~(l._RAFActive /\ l._RAFAvailable)

\* C22: after set_sps(r) on a loop on the fixed-interval scheduler, the next
\* scheduling decision (the cycle of the tick in flight when the loop runs,
\* the cycle of play() when it is paused) sets a timer that waits more than 0
\* and at most one new interval 1000 / r.
C22_RateChangeNextCycle ==
    \A r \in Rates :
        \A v \in {set_sps(World, r)} :
            /\ \A cb \in pending :
                  (/\ is_running(loop) /\ FixedInterval(loop) /\ cb.kind = "timeout"
                   /\ ~_check_for_end_trigger(loop)) =>
                      \* the timer fires when the clock reads its due time
                      \A w \in {_run(FireIn(v, cb, Max(now, cb.due)), Max(now, cb.due), DefaultHost)} :
                          \A c \in w.pending \ (pending \ {cb}) :
                              /\ c.due - w.now >= 1
                              /\ c.due - w.now <= 1000 \div r
            /\ (/\ loop._initialized /\ is_paused(loop) /\ ~is_running(loop) /\ ~loop._kill
                /\ FixedInterval(loop) /\ ~_check_for_end_trigger(loop)) =>
                  \A w \in {play(v, DefaultHost)} :
                      \A c \in w.pending \ pending :
                          /\ c.due - w.now >= 1
                          /\ c.due - w.now <= 1000 \div r

\* C23: in every state _interval is 1000 / _sps; set_sps(r) stores r, sets the
\* interval to 1000 / r and returns r; no operation but set_sps changes the
\* rate or the interval.
C23_IntervalFromRate ==
    /\ [](/\ loop._interval * get_sps(loop) = 1000
          /\ \A r \in Rates :
                \A w \in {set_sps(World, r)} :
                    /\ get_sps(w.loop) = r
                    /\ w.loop._interval * r = 1000
                    /\ set_sps_ret(World, r) = r)
    /\ [][(get_sps(loop') # get_sps(loop) \/ loop'._interval # loop._interval) =>
              SetSps(Rates)]_vars

\* the rate of a running loop has been raised to 1000 while a timer set at the
\* interval of 500 steps per second is pending
C23_RateChangedInFlight ==
    /\ is_running(loop)
    /\ get_sps(loop) = 1000
    /\ loop._interval = 1
    /\ get_step(loop) = 1
    /\ pending = {[kind |-> "timeout", id |-> 1, due |-> loop._startTime + 2]}

\* the arguments extend_lifespan is compared with its reference on: none, an
\* extension and a reduction
ReferenceDeltas == Deltas \cup {Num(-1)}

\* C24: extend_lifespan(d) on an uninitialized loop returns undefined and
\* changes nothing; with no numeric d it makes the lifespan unlimited and
\* returns undefined; with a numeric d it stores and returns the lifespan
\* (undefined taken as 0) plus d; it changes nothing else, except that it
\* clears the kill flag exactly when the flag was set and the new numeric
\* lifespan is greater than the step count.
C24_ExtendMatchesReference ==
    \A d \in ReferenceDeltas :
        \A w \in {extend_lifespan(World, d)}, ret \in {extend_lifespan_ret(World, d)} :
            LET sum == (IF get_lifespan(loop) = undefined THEN 0 ELSE Val(get_lifespan(loop)))
                           + Val(d)
                revived == loop._kill /\ d # undefined /\ sum > get_step(loop)
            IN  /\ [w EXCEPT !.loop._lifespan = 0, !.loop._kill = FALSE]
                      = [World EXCEPT !.loop._lifespan = 0, !.loop._kill = FALSE]
                /\ ~loop._initialized =>
                      /\ ret = undefined
                      /\ w = World
                /\ (loop._initialized /\ d = undefined) =>
                      /\ ret = undefined
                      /\ get_lifespan(w.loop) = undefined
                      /\ w.loop._kill = loop._kill
                /\ (loop._initialized /\ d # undefined) =>
                      /\ ret = Num(sum)
                      /\ get_lifespan(w.loop) = Num(sum)
                      /\ w.loop._kill = (loop._kill /\ ~revived)

\* extend_lifespan has cleared the kill flag of a loop that terminated after
\* one cycle: the lifespan is 2 and the loop waits for play()
C24_Revived ==
    /\ loop._initialized
    /\ ~loop._kill
    /\ ~is_running(loop)
    /\ calls["final"] = 1
    /\ get_step(loop) = 1
    /\ get_lifespan(loop) = Num(2)

\* the argument lists of new StepLoop(...): none, sps, sps and lifespan, all three
ConstructorArgs ==
    {<<>>}
        \cup {<<sps>> : sps \in Rates}
        \cup {<<sps, lifespan>> : sps \in Rates, lifespan \in Lifespans}
        \cup {<<sps, lifespan, RAF>> : sps \in Rates, lifespan \in Lifespans, RAF \in BOOLEAN}

\* C25: a newly constructed loop has the rate it was given (60 when none was),
\* the lifespan it was given (undefined when none was), a step count of 0 and
\* is neither running nor paused; as long as the loop is uninitialized no
\* hook has been invoked and no callback is pending.
C25_ConstructedUninitialized ==
    ~loop._initialized =>
        /\ \A args \in ConstructorArgs, avail \in BOOLEAN :
              \A l \in {new_StepLoop(args, avail)} :
                  /\ get_sps(l) = (IF args = <<>> THEN 60 ELSE args[1])
                  /\ get_lifespan(l) = (IF Len(args) < 2 THEN undefined ELSE args[2])
                  /\ get_step(l) = 0
                  /\ ~is_running(l)
                  /\ ~is_paused(l)
                  /\ ~l._initialized
        /\ get_sps(loop) \in Rates
        /\ get_lifespan(loop) \in Lifespans
        /\ get_step(loop) = 0
        /\ ~is_running(loop)
        /\ ~is_paused(loop)
        /\ calls = NoCalls
        /\ seen = <<>>
        /\ errors = NoErrors
        /\ pending = {}

\* a loop constructed with 500 steps per second and a lifespan of 2, before start()
C25_Constructed ==
    /\ ~loop._initialized
    /\ get_sps(loop) = 500
    /\ get_lifespan(loop) = Num(2)
    /\ now = 0

\* C26: set_use_RAF changes the toggle and nothing else: the tick in flight
\* stays pending under the primitive that scheduled it; when it fires on the
\* running loop it runs one cycle and schedules the following tick with the
\* primitive the toggle now selects, in place of itself, so that the number
\* of pending ticks is the one before the toggle.
C26_ToggleKeepsTickInFlight ==
    \A status \in BOOLEAN :
        \A v \in {set_use_RAF(World, status)} :
            /\ v = [World EXCEPT !.loop._RAFActive = status]
            /\ set_use_RAF_ret(World, status) = status
            /\ \A cb \in pending :
                  (is_running(loop) /\ ~_check_for_end_trigger(loop)) =>
                      \A w \in UNION {{_run(FireIn(v, cb, t), ts, DefaultHost) : ts \in FrameStamps(cb, t)}
                                        : t \in FireTimes(cb, MaxLate)} :
                          /\ Hooks(w) = <<"background", "before", "step", "after">>
                          /\ get_step(w.loop) = get_step(loop) + 1
                          /\ Cardinality(w.pending) = Cardinality(pending)
                          /\ \E c \in w.pending \ (pending \ {cb}) :
                                /\ w.pending = (pending \ {cb}) \cup {c}
                                /\ c.kind = (IF status /\ loop._RAFAvailable
                                             THEN "raf" ELSE "timeout")

\* the toggle of a running loop was switched to requestAnimationFrame while
\* its timer was in flight: the timer is the one pending tick
C26_ToggledInFlight ==
    /\ is_running(loop)
    /\ loop._RAFActive
    /\ loop._RAFAvailable
    /\ loop._RAFId = NoId
    /\ \E cb \in pending :
          /\ pending = {cb}
          /\ cb.kind = "timeout"
          /\ cb.id = loop._timeoutId

\* C27 as stated: once a cycle has completed with the step count at the
\* lifespan, the termination sequence has run (kill flag set, not running,
\* final() invoked once) and no tick is pending.
C27_TerminatesAtCycleEnd ==
    (loop._initialized /\ get_step(loop) >= Val(get_lifespan(loop))) =>
        /\ loop._kill
        /\ ~is_running(loop)
        /\ calls["final"] = 1
        /\ pending = {}

\* C27, amended: the cycle that raises the step count to the lifespan N >= 1
\* leaves the loop running, final() not invoked and one tick pending; the
\* step that follows on that loop is the tick, which runs no cycle, invokes
\* final() once, sets the kill flag, stops the loop and leaves no tick pending.
C27_TerminatesAtNextTick ==
    [][/\ (/\ get_step(loop') = get_step(loop) + 1
           /\ get_step(loop') >= Val(get_lifespan(loop'))) =>
              /\ is_running(loop')
              /\ ~loop'._kill
              /\ calls'["final"] = 0
              /\ Cardinality(pending') = 1
       /\ (is_running(loop) /\ get_step(loop) >= Val(get_lifespan(loop))) =>
              /\ loop'._kill
              /\ ~is_running(loop')
              /\ get_step(loop') = get_step(loop)
              /\ calls' = [calls EXCEPT !["final"] = 1]
              /\ seen' = seen
              /\ pending' = {}]_vars

\* a loop of lifespan 1 ran its one cycle inside start() and terminated when
\* its timer fired, at least one interval later
C27_TerminatedOneTickLater ==
    /\ loop._kill
    /\ get_lifespan(loop) = Num(1)
    /\ get_step(loop) = 1
    /\ calls["final"] = 1
    /\ loop._lastStepTime = loop._startTime
    /\ now >= loop._startTime + loop._interval

\* C28: a cycle that completes on the running loop requests the next tick
\* whatever the step count: the loop whose step count has reached its
\* lifespan is still running with a tick pending and final() not invoked
\* (so after start() on a loop of lifespan 1), and final() is invoked by the
\* tick that fires next, which runs no cycle.
C28_CheckAtTopOfTick ==
    /\ (loop._initialized /\ ~loop._kill) =>
          /\ is_running(loop)
          /\ calls["final"] = 0
          /\ Cardinality(pending) = 1
    /\ ~loop._initialized =>
          \A w \in {start(StartWorld, DefaultHost)} :
              /\ Hooks(w) = <<"initial", "background", "before", "step", "after">>
              /\ is_running(w.loop)
              /\ Cardinality(w.pending) = 1
    /\ \A cb \in pending :
          \A w \in Ticks(cb, DefaultHost, MaxLate) :
              IF get_step(loop) >= Val(get_lifespan(loop))
              THEN /\ Hooks(w) = <<"final">>
                   /\ ~is_running(w.loop)
                   /\ w.pending = {}
              ELSE /\ Hooks(w) = <<"background", "before", "step", "after">>
                   /\ is_running(w.loop)
                   /\ Cardinality(w.pending) = 1

\* start() has returned on a loop of lifespan 1: the step count is at the
\* lifespan and the loop is running, its first tick pending
C28_RunningAtLifespan ==
    /\ is_running(loop)
    /\ get_lifespan(loop) = Num(1)
    /\ get_step(loop) = 1
    /\ calls["final"] = 0
    /\ pending # {}
    /\ now = loop._startTime

\* C29: start() on a constructed loop invokes initial() before it sets the
\* running flag and before it takes _startTime: initial() reads is_running()
\* as false, and _startTime is no earlier than the time initial() returned.
C29_InitialBeforeRunning ==
    ~loop._initialized =>
        \A h \in {DefaultHost, InitialSlow} :
            \A w \in {start(StartWorld, h)} :
                /\ w.log[1].hook = "initial"
                /\ ~w.log[1].running
                /\ w.loop._startTime >= w.log[1].until

\* C30: on the fixed-interval scheduler the timer that a cycle sets when it has
\* completed at time t, with k cycles completed before it, waits
\* max(0, _startTime + (k + 1) * _interval - t) ms: never less than 0, and
\* when cycle k ran less than one interval after its ideal time
\* _startTime + k * _interval the timer is due at _startTime + (k + 1) * _interval.
C30_DelayFromAnchor ==
    \A cb \in pending :
        (/\ is_running(loop) /\ FixedInterval(loop) /\ cb.kind = "timeout"
         /\ ~_check_for_end_trigger(loop)) =>
            \* the timer fires early, on time, less than an interval late, or
            \* an interval late or more
            \A t \in FireTimes(cb, MaxLate + 1) :
                \A w \in {Tick(cb, t, t, DefaultHost)} :
                    LET k == get_step(loop)
                        ideal == loop._startTime + (k * loop._interval)
                        next == ideal + loop._interval
                    IN  \E c \in w.pending \ (pending \ {cb}) :
                            /\ w.pending = (pending \ {cb}) \cup {c}
                            /\ c.kind = "timeout"
                            /\ c.due - t >= 0
                            /\ c.due - t = (IF next > t THEN next - t ELSE 0)
                            /\ (t >= ideal /\ t - ideal < loop._interval) => c.due = next

\* a timer of a loop at 500 steps per second is pending that was set by a cycle
\* which ran at its ideal time: it is due one interval later
C30_AimedAtIdeal ==
    /\ is_running(loop)
    /\ FixedInterval(loop)
    /\ get_sps(loop) = 500
    /\ get_step(loop) = 1
    /\ loop._lastStepTime = loop._startTime
    /\ pending = {[kind |-> "timeout", id |-> 1, due |-> loop._startTime + 2]}

\* how long, in ms, the loops of C31 stay stopped before play() is called
PauseLengths == 0..(MaxTime + 2)

\* C31: play() on a stopped loop on the fixed-interval scheduler, after a stop
\* of any length and any set_sps during it, sets _startTime to
\* now - _step_num * _interval with the interval in force, runs one cycle and
\* sets a timer that is due one interval after now.
C31_PlayReanchors ==
    \A d \in PauseLengths, r \in Rates :
        (/\ loop._initialized /\ ~is_running(loop) /\ ~loop._kill
         /\ FixedInterval(loop) /\ ~_check_for_end_trigger(loop)) =>
            \A v \in {set_sps([World EXCEPT !.now = now + d], r),
                       [World EXCEPT !.now = now + d]} :
                \A w \in {play(v, DefaultHost)} :
                    /\ w.loop._startTime * get_sps(v.loop)
                          = (v.now * get_sps(v.loop)) - (get_step(loop) * 1000)
                    /\ get_step(w.loop) = get_step(loop) + 1
                    /\ \E c \in w.pending \ pending :
                          /\ w.pending = pending \cup {c}
                          /\ c.kind = "timeout"
                          /\ (c.due - v.now) * get_sps(v.loop) = 1000

\* play() has resumed, at the time of start(), a loop that was stopped after
\* its first cycle: the schedule is anchored one interval before now and the
\* timer is due one interval after now
C31_Resumed ==
    /\ is_running(loop)
    /\ FixedInterval(loop)
    /\ get_step(loop) = 2
    /\ now = 0
    /\ loop._startTime = now - loop._interval
    /\ pending = {[kind |-> "timeout", id |-> 1, due |-> now + loop._interval]}

\* C33: a step that changes the step count is start(), which resets it and
\* runs cycle 0, or completes one cycle and adds exactly 1; every completed
\* cycle adds 1; no step but start() changes the count of a loop whose kill
\* flag is set; pause, finish, set_sps, set_use_RAF, extend_lifespan and the
\* termination sequence leave the count as it is, and play changes it only by
\* the cycle it runs.
C33_StepCountChanges ==
    /\ [][\/ /\ get_step(loop') = get_step(loop) + (calls'["step"] - calls["step"])
             /\ calls'["step"] - calls["step"] \in {0, 1}
             /\ loop._kill => get_step(loop') = get_step(loop)
             /\ calls'["final"] # calls["final"] => get_step(loop') = get_step(loop)
          \/ /\ get_step(loop') = 1
             /\ seen' = <<0>>
             /\ Start(ReturningHosts)]_vars
    /\ [](\A h \in {DefaultHost, FailingHost} :
            /\ get_step(pause(World, h).loop) = get_step(loop)
            /\ get_step(finish(World, h).loop) = get_step(loop)
            /\ \A w \in {play(World, h)} :
                  get_step(w.loop) = get_step(loop) + Len(SelectSeq(Hooks(w), LAMBDA n : n = "step"))
            /\ \A r \in Rates : get_step(set_sps(World, r).loop) = get_step(loop)
            /\ \A b \in BOOLEAN : get_step(set_use_RAF(World, b).loop) = get_step(loop)
            /\ \A d \in Deltas : get_step(extend_lifespan(World, d).loop) = get_step(loop))

\* start() has been called again, 1 ms after the first start(), on a loop that
\* had completed two cycles: the count is back at 1
C33_Restarted ==
    /\ is_running(loop)
    /\ get_step(loop) = 1
    /\ seen = <<0>>
    /\ now = 1
    /\ loop._startTime = 1
    /\ loop._lastStepDuration = 0

\* C34: a pause() that takes effect cancels the pending tick and then invokes
\* on_pause exactly once, with is_running() false and is_paused() true inside
\* the hook; a play() that takes effect invokes on_play exactly once, with
\* is_running() true and is_paused() false inside the hook, before every other
\* hook of the call.
C34_PausePlayHooks ==
    /\ (loop._initialized /\ is_running(loop) /\ ~loop._kill) =>
          \A h \in {DefaultHost, FailingHost} :
              \A w \in {pause(World, h)} :
                  /\ Hooks(w) = <<"on_pause">>
                  /\ ~w.log[1].running
                  /\ w.log[1].paused
                  /\ pending # {} => w.pending # pending
    /\ (loop._initialized /\ ~is_running(loop) /\ ~loop._kill) =>
          \A w \in {play(World, DefaultHost)} :
              /\ Len(SelectSeq(Hooks(w), LAMBDA n : n = "on_play")) = 1
              /\ w.log[1].hook = "on_play"
              /\ w.log[1].running
              /\ ~w.log[1].paused

\* C38: whenever the loop is running, exactly one callback of the instance is
\* pending, whether the hooks return or throw.
C38_RunningHasOneTick == is_running(loop) => Cardinality(pending) = 1

\* C39: on a loop constructed with a lifespan of at least 1 and extended by
\* non-negative numbers only, the step count never exceeds the lifespan, and
\* every before(), step() and after() that start(), play() or a firing
\* callback invokes is invoked with a step count below the lifespan, however
\* many callbacks are pending.
C39_WithinLifespan ==
    /\ IsNumber(get_lifespan(loop))
    /\ get_step(loop) <= Val(get_lifespan(loop))
    /\ \A h \in {DefaultHost, FailingHost} :
          \A w \in {start(StartWorld, h), play(World, h)} \cup UNION {Ticks(cb, h, MaxLate) : cb \in pending} :
              \A i \in 1..Len(w.log) :
                  w.log[i].hook \in {"before", "step", "after"} =>
                      w.log[i].step < Val(get_lifespan(w.loop))

\* the loop is running with its step count at its lifespan of 2 and two
\* callbacks pending
C39_AtLifespanTwoPending ==
    /\ is_running(loop)
    /\ get_lifespan(loop) = Num(2)
    /\ get_step(loop) = 2
    /\ Cardinality(pending) = 2

\* C40: a pending callback that fires while the loop is not running invokes no
\* hook, changes no field of the loop, no count and no report, and schedules
\* nothing: the world after it is the world it fired in.
C40_IdleCallbackNoOp ==
    ~is_running(loop) =>
        \A cb \in pending, h \in {DefaultHost, FailingHost} :
            \A t \in FireTimes(cb, MaxLate) :
                \A v \in {FireWorld(cb, t)} :
                    \A w \in {Tick(cb, t, ts, h) : ts \in FrameStamps(cb, t)} :
                        /\ w = v
                        /\ w.log = <<>>
                        /\ w.loop = loop
                        /\ w.pending = pending \ {cb}

\* a timer left pending by pause() has fired 1 ms after the only cycle: the
\* loop is still paused with a step count of 1, the time of the last step is
\* that of the cycle and nothing is pending
C40_FiredWhilePaused ==
    /\ is_paused(loop)
    /\ ~is_running(loop)
    /\ pending = {}
    /\ now = 1
    /\ loop._lastStepTime = 0
    /\ loop._lastStepDuration = 0
    /\ get_step(loop) = 1

\* the operations that may run a cycle in the current state, on host h: the
\* world each is called in and the world it returns in
CycleRuns(h) ==
    {<<StartWorld, start(StartWorld, h)>>, <<World, play(World, h)>>}
        \cup UNION {UNION {{<<FireWorld(cb, t), Tick(cb, t, ts, h)>> : ts \in FrameStamps(cb, t)}
                             : t \in FireTimes(cb, MaxLate)}
                      : cb \in pending}

\* the hooks of a cycle in which hook n calls pause(), in the order _run calls them
PausedCycle(n) ==
    IF n = "before" THEN <<"background", "before", "on_pause", "step", "after">>
    ELSE IF n = "step" THEN <<"background", "before", "step", "on_pause", "after">>
    ELSE <<"background", "before", "step", "after", "on_pause">>

\* C35: when the before, step or after hook of cycle i calls pause(), on_pause
\* is invoked inside that hook, the remaining hooks of the cycle still run,
\* the step count becomes i + 1, the loop is left paused with no new callback
\* scheduled, and no callback still pending runs a cycle.
C35_PauseInsideCycle ==
    \A n \in CycleHooks :
        \A h \in {[DefaultHost EXCEPT ![n] = "pause"]} :
            \A r \in CycleRuns(h) :
                "step" \in {r[2].log[i].hook : i \in 1..Len(r[2].log)} =>
                    /\ SelectSeq(Hooks(r[2]), LAMBDA x : x \notin {"initial", "on_play"}) = PausedCycle(n)
                    /\ \A i \in 1..Len(r[2].log) :
                          r[2].log[i].hook \in CycleHooks =>
                              get_step(r[2].loop) = r[2].log[i].step + 1
                    /\ ~is_running(r[2].loop)
                    /\ is_paused(r[2].loop)
                    /\ r[2].pending \subseteq r[1].pending
                    /\ \A cb \in r[2].pending :
                          \A v \in {FireIn(r[2], cb, t) : t \in FireTimes(cb, MaxLate)} :
                              \A ts \in FrameStamps(cb, v.now) : _run(v, ts, DefaultHost) = v

\* cycle 0 of a loop with the animation-frame toggle on and no
\* requestAnimationFrame has called pause(): the loop is paused with a step
\* count of 1 and has never set a timer
C35_PausedInCycle ==
    /\ is_paused(loop)
    /\ ~is_running(loop)
    /\ get_step(loop) = 1
    /\ loop._RAFActive
    /\ ~loop._RAFAvailable
    /\ loop._timeoutId = NoId
    /\ pending = {}

\* C36: no operation invokes a before, step or after hook after it has
\* invoked final(), whether a cycle hook calls finish() or not, and on a loop
\* that has terminated no pending callback invokes any hook.
C36_FinalIsLast ==
    /\ \A h \in {DefaultHost} \cup FinishingHosts :
          \A w \in {r[2] : r \in CycleRuns(h)} \cup {finish(World, h)} :
              \A i \in 1..Len(w.log) :
                  w.log[i].hook = "final" =>
                      \A j \in (i + 1)..Len(w.log) : w.log[j].hook \notin CycleHooks
    /\ loop._kill =>
          \A cb \in pending, h \in {DefaultHost} \cup FinishingHosts :
              \A w \in Ticks(cb, h, MaxLate) : w.log = <<>>

\* two worlds an operation may return in differ in nothing but the unsettled
\* promises: same loop fields, same callbacks pending, same hooks invoked
SameProgress(w, u) ==
    /\ w.loop = u.loop
    /\ w.pending = u.pending
    /\ w.calls = u.calls
    /\ Hooks(w) = Hooks(u)

\* C32: a start() or a firing callback whose background() promise stays
\* unsettled invokes the same hooks, ends with the same loop fields and
\* schedules the same next tick as one whose promise has resolved, and leaves
\* the promises of earlier cycles unsettled; and the loop terminates and
\* calls final() even if no promise of background() ever settles.
C32_BackgroundNeverGates ==
    /\ [](/\ \A w \in {start(StartWorld, BackgroundPending)} :
               /\ SameProgress(w, start(StartWorld, DefaultHost))
               /\ tasks \subseteq w.tasks
          /\ \A cb \in pending :
               \A t \in FireTimes(cb, MaxLate) :
                   \A ts \in FrameStamps(cb, t) :
                       \A w \in {Tick(cb, t, ts, BackgroundPending)} :
                           /\ SameProgress(w, Tick(cb, t, ts, DefaultHost))
                           /\ tasks \subseteq w.tasks)
    /\ <>(loop._kill /\ calls["final"] = 1)

\* a loop of lifespan 2 has terminated and called final() while the promises
\* of background() of cycle 0 and of cycle 1 are both unsettled: cycle 1 has
\* run with the promise of cycle 0 unsettled
C32_TerminatedWithTasks ==
    /\ loop._kill
    /\ calls["final"] = 1
    /\ get_step(loop) = 2
    /\ seen = <<0, 1>>
    /\ tasks = {0, 1}

\* The observed rate follows the completed cycles: a step in which no cycle
\* completes keeps the timestamp of the last cycle and the observed rate; a
\* step in which a cycle completes with timestamp t, the cycle before it on
\* the instance having completed with timestamp t0 (0 if there is none), sets
\* the timestamp of the last cycle to t and the observed rate to 0 if t = t0
\* and to 1000 / (t - t0) otherwise.  The timestamp t is the reading of the
\* clock, unless the cycle is run by the callback of a frame: then it is the
\* timestamp of the frame, whatever the environment makes it.
RateFollowsCycles ==
    \/ /\ calls'["step"] = calls["step"]
       /\ loop'._lastStepTime = loop._lastStepTime
       /\ get_real_sps(loop') = get_real_sps(loop)
    \/ /\ calls'["step"] = calls["step"] + 1 \/ Start(ReturningHosts)
       /\ \/ loop'._lastStepTime = now'
          \/ \E cb \in pending : cb.kind = "raf"
       /\ get_real_sps(loop') =
             IF loop'._lastStepTime = loop._lastStepTime THEN Zero
             ELSE Quotient(1000, loop'._lastStepTime - loop._lastStepTime)

\* C37: get_real_sps() returns 0 on a loop no cycle of which has completed
\* since it was constructed or last re-initialized by start(), and otherwise
\* 1000 over the difference between the timestamps of the last two completed
\* cycles; it never divides by zero.
C37_ObservedRateSinceInit ==
    /\ [](~loop._initialized => get_real_sps(loop) = Zero)
    /\ [](\A w \in {_init(StartWorld, DefaultHost)} : get_real_sps(w.loop) = Zero)
    /\ [](get_real_sps(loop)[2] # 0)
    /\ [][RateFollowsCycles]_vars

\* C37 (amended): get_real_sps() returns 0 on a loop no cycle of which has
\* completed since it was constructed, or whose last two completed cycles
\* have the same timestamp, and otherwise 1000 over the difference between
\* the timestamps of the last two cycles completed on the instance, to
\* whichever lifecycle they belong (the timestamp itself after the first
\* cycle of the instance); it never divides by zero.
C37_ObservedRateOfInstance ==
    /\ [](~loop._initialized => get_real_sps(loop) = Zero)
    /\ [](get_real_sps(loop)[2] # 0)
    /\ [][RateFollowsCycles]_vars

\* start() has been called again at time 2 on a loop whose last cycle ran at
\* time 1: cycle 0 of the new lifecycle has completed and the observed rate
\* is 1000 / 1, taken across the two lifecycles
C37_RestartedAcrossLifecycles ==
    /\ seen = <<0>>
    /\ get_step(loop) = 1
    /\ now = 2
    /\ loop._startTime = 2
    /\ loop._lastStepTime = 2
    /\ get_real_sps(loop) = Quotient(1000, 1)

====
